---- MODULE Spec2Model ----
(***************************************************************************)
(* Tracked-change extraction of python-xml/docxml_parser.py.               *)
(*                                                                         *)
(* A Python str is modelled as a sequence of one-character strings, so     *)
(* that split, strip, lower, startswith, replace and join are computed     *)
(* character by character.  None and an unassigned local variable are the  *)
(* one-element sequences None and Unbound, whose single element is no      *)
(* character of any text.                                                  *)
(***************************************************************************)
EXTENDS Integers, Sequences, FiniteSets, TLC

VARIABLES
    pc,                 \* position in extract_tracked_changes / the called function
    exc,                \* the exception that ended the run, or "none"
    n_par,              \* paragraphs of root.findall('.//w:p') visited so far
    n_elem,             \* elements of the document visited so far
    paragraph,          \* the parsed elements of the current paragraph
    full_text,          \* locals of extract_tracked_changes ...
    deletions,
    insertions,
    data,
    unique_id,
    original_partial,
    corrected_sentence,
    i,                  \* index of the running for loop over deletions / insertions
    arg,                \* argument of a function called on its own
    ret,                \* its return value
    files_processed,    \* locals of the batch driver (__main__) ...
    n_folders,          \* folders of os.listdir(proof_dir) visited so far
    folder_files,       \* os.listdir of the current folder
    f,                  \* position of the loop over folder_files
    limit,              \* arguments and locals of create_test_dataset ...
    examples_per_rule,
    rules_left,         \* rules of rules.items() not yet visited
    all_examples,
    remaining_examples,
    saved               \* the list handed to save_test_dataset

driverVars == <<files_processed, n_folders, folder_files, f>>

datasetVars == <<limit, examples_per_rule, rules_left, all_examples, remaining_examples, saved>>

vars == <<pc, exc, n_par, n_elem, paragraph, full_text, deletions, insertions,
          data, unique_id, original_partial, corrected_sentence, i, arg, ret,
          driverVars, datasetVars>>

(***************************************************************************)
(* Bounds of the model.                                                    *)
(***************************************************************************)
MaxParagraphs == 2      \* paragraphs per document
MaxElems == 3           \* run / deletion / insertion elements per document
MaxDeletions == 3       \* marks in a list handed to merge_deletions directly
MaxTextWords == 3       \* words of a text handed to get_surrounding_text directly
MaxTargetWords == 2     \* words of its target
MaxWindow == 1          \* its window
MaxFolders == 12        \* publication folders listed in proof_dir
MaxFiles == 2           \* files listed in one publication folder
MaxLimit == 3           \* largest integer limit given to create_test_dataset
MaxPerRule == 2         \* largest examples_per_rule
MaxRules == 3           \* rules in the rules file

(***************************************************************************)
(* Values.                                                                 *)
(***************************************************************************)
None == <<"None">>
Unbound == <<"unbound">>
SP == " "

\* Python truthiness of a str-or-None value
Truthy(x) == x # None /\ x # <<>>

\* ns['w'] and the key under which ElementTree stores an attribute written
\* w:id in the markup: '{namespace-uri}id'
WNS == "http://schemas.openxmlformats.org/wordprocessingml/2006/main"
QualifiedId == "{http://schemas.openxmlformats.org/wordprocessingml/2006/main}id"

\* ET.fromstring on an attribute name: a prefixed name is stored expanded,
\* an unprefixed name as written
ExpandName(name) == IF name = "w:id" THEN QualifiedId ELSE name

\* ET.fromstring on one element: attrs is the markup's sequence of
\* <<name, value>> pairs, attrib the resulting dict
ParseElement(e) ==
    [tag |-> e.tag,
     attrib |-> [k \in {ExpandName(e.attrs[n][1]) : n \in 1..Len(e.attrs)} |->
                    LET n == CHOOSE n \in 1..Len(e.attrs) : ExpandName(e.attrs[n][1]) = k
                    IN e.attrs[n][2]],
     runs |-> e.runs]

\* dict.get(key, default)
AttribGet(attrib, key, default) ==
    IF key \in DOMAIN attrib THEN attrib[key] ELSE default

\* str(unique_id)
str(n) == ToString(n)

\* the state of a program that is not the one running
DriverIdle ==
    /\ files_processed = 0
    /\ n_folders = 0
    /\ folder_files = <<>>
    /\ f = 0

DatasetIdle ==
    /\ limit = <<>>
    /\ examples_per_rule = 0
    /\ rules_left = 0
    /\ all_examples = <<>>
    /\ remaining_examples = 0
    /\ saved = Unbound

(***************************************************************************)
(* String functions of the Python library, as the code uses them.          *)
(***************************************************************************)
IsSpace(c) == c = SP

RECURSIVE lstrip(_)
lstrip(s) == IF s # <<>> /\ IsSpace(Head(s)) THEN lstrip(Tail(s)) ELSE s

RECURSIVE rstrip(_)
rstrip(s) ==
    IF s # <<>> /\ IsSpace(s[Len(s)]) THEN rstrip(SubSeq(s, 1, Len(s) - 1)) ELSE s

strip(s) == rstrip(lstrip(s))

\* str.split(): the maximal runs of non-whitespace characters
RECURSIVE SplitFrom(_, _, _)
SplitFrom(s, cur, acc) ==
    IF s = <<>> THEN (IF cur = <<>> THEN acc ELSE Append(acc, cur))
    ELSE IF IsSpace(Head(s))
         THEN SplitFrom(Tail(s), <<>>, IF cur = <<>> THEN acc ELSE Append(acc, cur))
         ELSE SplitFrom(Tail(s), Append(cur, Head(s)), acc)

split(s) == SplitFrom(s, <<>>, <<>>)

\* "".join(list)
RECURSIVE join(_)
join(l) == IF l = <<>> THEN <<>> ELSE Head(l) \o join(Tail(l))

LowerChar(c) == CASE c = "A" -> "a" [] c = "B" -> "b" [] OTHER -> c

lower(s) == [k \in 1..Len(s) |-> LowerChar(s[k])]

startswith(s, prefix) ==
    Len(prefix) <= Len(s) /\ SubSeq(s, 1, Len(prefix)) = prefix

\* str.replace(old, new): every non-overlapping occurrence, left to right
RECURSIVE replace(_, _, _)
replace(s, old, new) ==
    IF old = <<>>
    THEN (IF s = <<>> THEN new ELSE new \o <<Head(s)>> \o replace(Tail(s), old, new))
    ELSE IF Len(s) < Len(old) THEN s
    ELSE IF SubSeq(s, 1, Len(old)) = old
         THEN new \o replace(SubSeq(s, Len(old) + 1, Len(s)), old, new)
         ELSE <<Head(s)>> \o replace(Tail(s), old, new)

\* list.index(x): the first position of x (1-based), 0 for ValueError
index(l, x) ==
    IF \E k \in 1..Len(l) : l[k] = x
    THEN CHOOSE k \in 1..Len(l) : l[k] = x /\ \A m \in 1..(k - 1) : l[m] # x
    ELSE 0

Max(a, b) == IF a >= b THEN a ELSE b
Min(a, b) == IF a <= b THEN a ELSE b

(***************************************************************************)
(* Functions of docxml_parser.py.                                          *)
(***************************************************************************)
\* the default of get_surrounding_text's window parameter
DefaultWindow == 5

RECURSIVE extract_text_from_runs(_)
extract_text_from_runs(runs) ==
    IF runs = <<>> THEN <<>>
    ELSE (IF Truthy(Head(runs)) THEN Head(runs) ELSE <<>>)
         \o extract_text_from_runs(Tail(runs))

\* variant: the end of the window forgets the length of the target
get_surrounding_text_short(text, target, window) ==
    IF strip(target) = <<>> THEN text
    ELSE LET words == split(text)
             target_words == split(target)
         IN IF target_words = <<>> THEN text
            ELSE LET idx == index(words, target_words[1])
                 IN IF idx = 0 THEN text
                    ELSE LET start == Max(0, (idx - 1) - window)
                             end == Min(Len(words), (idx - 1) + window)
                         IN join(SubSeq(words, start + 1, end))

\* variant: nothing is returned when the first word is not found
get_surrounding_text_unfound(text, target, window) ==
    IF strip(target) = <<>> THEN text
    ELSE LET words == split(text)
             target_words == split(target)
         IN IF target_words = <<>> THEN text
            ELSE LET idx == index(words, target_words[1])
                 IN IF idx = 0 THEN <<>>
                    ELSE LET start == Max(0, (idx - 1) - window)
                             end == Min(Len(words), (idx - 1) + window + Len(target_words))
                         IN join(SubSeq(words, start + 1, end))

get_surrounding_text(text, target, window) ==
    IF strip(target) = <<>> THEN text
    ELSE LET words == split(text)
             target_words == split(target)
         IN IF target_words = <<>> THEN text
            ELSE LET idx == index(words, target_words[1])      \* 1-based
                 IN IF idx = 0 THEN text
                    ELSE LET start == Max(0, (idx - 1) - window)
                             end == Min(Len(words), (idx - 1) + window + Len(target_words))
                         IN join(SubSeq(words, start + 1, end))

\* variant: the comparison forgets to lowercase
is_partial_word_modification_cased(original, corrected) ==
    Len(original) # Len(corrected) /\ startswith(original, corrected)

is_partial_word_modification(original, corrected) ==
    Len(original) # Len(corrected) /\ startswith(lower(original), lower(corrected))

\* the for loop of merge_deletions: current_del is the accumulator
RECURSIVE MergeLoop(_, _, _)
MergeLoop(rest, current_del, merged) ==
    IF rest = <<>> THEN Append(merged, current_del)
    ELSE LET next_del == Head(rest)
         IN IF current_del[1] = next_del[1]
            THEN MergeLoop(Tail(rest),
                           <<current_del[1], current_del[2] \o <<SP>> \o next_del[2]>>,
                           merged)
            ELSE MergeLoop(Tail(rest), next_del, Append(merged, current_del))

\* variant: the accumulator is not flushed after the loop
merge_deletions_unflushed(dels) ==
    IF dels = <<>> THEN <<>>
    ELSE LET merged == MergeLoop(Tail(dels), Head(dels), <<>>)
         IN SubSeq(merged, 1, Len(merged) - 1)

\* variant: nothing is merged
merge_deletions_unmerged(dels) == dels

merge_deletions(dels) ==
    IF dels = <<>> THEN <<>> ELSE MergeLoop(Tail(dels), Head(dels), <<>>)

(***************************************************************************)
(* The steps of extract_tracked_changes on one paragraph.                  *)
(***************************************************************************)
SelectTag(par, tags) == SelectSeq(par, LAMBDA e : e.tag \in tags)

\* paragraph.findall('.//w:t'): the text nodes of plain runs and of the runs
\* inside w:ins, in document order (a w:del holds w:delText, not w:t)
ParagraphTextNodes(par) ==
    LET Nodes[k \in 0..Len(par)] ==
            IF k = 0 THEN <<>>
            ELSE Nodes[k - 1] \o (IF par[k].tag \in {"w:r", "w:ins"} THEN par[k].runs ELSE <<>>)
    IN Nodes[Len(par)]

\* the scan loops: one (id, text) mark per element whose text is truthy
RECURSIVE ScanMarks(_, _)
ScanMarks(elements, uid) ==
    IF elements = <<>> THEN <<>>
    ELSE LET el == Head(elements)
             el_id == AttribGet(el.attrib, "w:id", str(uid))
             el_text == extract_text_from_runs(el.runs)
         IN (IF Truthy(el_text) THEN << <<el_id, el_text>> >> ELSE <<>>)
            \o ScanMarks(Tail(elements), uid)

\* variant: the last insertion with the identifier instead of the first
MatchingInsertLast(ins, del_id) ==
    IF \E k \in 1..Len(ins) : ins[k][1] = del_id
    THEN ins[CHOOSE k \in 1..Len(ins) :
                /\ ins[k][1] = del_id
                /\ \A m \in (k + 1)..Len(ins) : ins[m][1] # del_id][2]
    ELSE None

\* next((ins_text for ins_id, ins_text in insertions if ins_id == del_id), None)
MatchingInsert(ins, del_id) ==
    IF \E k \in 1..Len(ins) : ins[k][1] = del_id
    THEN ins[CHOOSE k \in 1..Len(ins) :
                /\ ins[k][1] = del_id
                /\ \A m \in 1..(k - 1) : ins[m][1] # del_id][2]
    ELSE None

\* variant: the test against the deletions is dropped
AnyDeletionWithIdDropped(dels, ins_id) == FALSE

\* any(del_id == ins_id for del_id, _ in deletions)
AnyDeletionWithId(dels, ins_id) == \E k \in 1..Len(dels) : dels[k][1] = ins_id

ChangeType(del_text, matching_insert) ==
    IF Truthy(matching_insert)
    THEN (IF is_partial_word_modification(del_text, matching_insert)
          THEN "partial-word modification" ELSE "both")
    ELSE "deletion"

CorrectionSingle(matching_insert) ==
    IF Truthy(matching_insert) THEN matching_insert ELSE None

\* the dict appended for a merged deletion (data.append({...}))
DeletionRecord(uid, del_text, orig_partial, text, correction_single, corr_sentence, change_type) ==
    [ID |-> uid,
     original_single |-> del_text,
     original_partial |-> orig_partial,
     original_sentence |-> text,
     correction_single |-> correction_single,
     correction_partial |-> corr_sentence,
     corrected_sentence |-> corr_sentence,
     change_type |-> change_type]

\* the dict appended for an insertion no deletion matches
InsertionRecord(uid, ins_text, orig_partial, text, corr_sentence) ==
    [ID |-> uid,
     original_single |-> None,
     original_partial |-> orig_partial,
     original_sentence |-> text,
     correction_single |-> ins_text,
     correction_partial |-> replace(orig_partial, ins_text, ins_text),
     corrected_sentence |-> corr_sentence,
     change_type |-> "insertion"]

\* variant: the record is put in front of the list
EmitFirst(records, rec) == <<rec>> \o records

\* data.append(record)
Emit(records, rec) == Append(records, rec)

\* variant: the counter is not advanced
NextUniqueIdStuck(uid) == uid

\* unique_id += 1
NextUniqueId(uid) == uid + 1

(***************************************************************************)
(* The documents the model reads: a paragraph is a sequence of elements,   *)
(* each a plain run (w:r), a deletion (w:del) or an insertion (w:ins),     *)
(* with the attributes written in the markup and the text nodes it holds.  *)
(***************************************************************************)
El(tag, attrs, runs) == [tag |-> tag, attrs |-> attrs, runs |-> runs]

NoAttrs == <<>>
IdAttr == << <<"w:id", "5">> >>         \* w:id="5"

DelElements ==
    { El("w:del", NoAttrs, << <<SP>> >>),               \* " ", no id
      El("w:del", NoAttrs, << <<"a">> >>),              \* "a", no id
      El("w:del", IdAttr, << <<"a">>, <<"b">> >>),      \* "a" and "b" in two runs, id 5
      El("w:del", IdAttr, << None >>) }                 \* an empty text node, id 5

InsElements ==
    { El("w:ins", NoAttrs, << <<"a">> >>),              \* "a", no id
      El("w:ins", IdAttr, << <<"a">>, <<"b">> >>),      \* "a" and "b" in two runs, id 5
      El("w:ins", NoAttrs, << <<"A">> >>),              \* "A", no id
      El("w:ins", NoAttrs, << <<SP>> >>),               \* " ", no id
      El("w:ins", IdAttr, << None >>) }                 \* an empty text node, id 5

PlainElements == { El("w:r", NoAttrs, << <<"a", SP, "a">> >>) }     \* "a a"

Elements == DelElements \cup InsElements \cup PlainElements

Markups(k) == [1..k -> Elements]

(***************************************************************************)
(* extract_tracked_changes as a state machine.                             *)
(***************************************************************************)
Init ==
    /\ pc = "paragraphs"
    /\ exc = "none"
    /\ n_par = 0
    /\ n_elem = 0
    /\ paragraph = <<>>
    /\ full_text = Unbound
    /\ deletions = <<>>
    /\ insertions = <<>>
    /\ data = <<>>
    /\ unique_id = 1
    /\ original_partial = Unbound
    /\ corrected_sentence = Unbound
    /\ i = 0
    /\ arg = <<>>
    /\ ret = <<>>
    /\ DriverIdle
    /\ DatasetIdle

\* for paragraph in root.findall('.//w:p', ns): full_text, deletions = [], insertions = []
NextParagraph ==
    /\ pc = "paragraphs"
    /\ n_par < MaxParagraphs
    /\ \E k \in 0..(MaxElems - n_elem) : \E markup \in Markups(k) :
          /\ paragraph' = [n \in 1..k |-> ParseElement(markup[n])]
          /\ n_elem' = n_elem + k
    /\ n_par' = n_par + 1
    /\ full_text' = extract_text_from_runs(ParagraphTextNodes(paragraph'))
    /\ deletions' = <<>>
    /\ insertions' = <<>>
    /\ pc' = "find_deletions"
    /\ UNCHANGED <<exc, data, unique_id, original_partial, corrected_sentence, i, arg, ret>>
    /\ UNCHANGED <<driverVars, datasetVars>>

\* for del_element in paragraph.findall('.//w:del', ns): ...
FindDeletions ==
    /\ pc = "find_deletions"
    /\ deletions' = ScanMarks(SelectTag(paragraph, {"w:del"}), unique_id)
    /\ pc' = "merge"
    /\ UNCHANGED <<exc, n_par, n_elem, paragraph, full_text, insertions, data, unique_id,
                   original_partial, corrected_sentence, i, arg, ret>>
    /\ UNCHANGED <<driverVars, datasetVars>>

\* deletions = merge_deletions(deletions)
MergeDeletions ==
    /\ pc = "merge"
    /\ deletions' = merge_deletions(deletions)
    /\ pc' = "find_insertions"
    /\ UNCHANGED <<exc, n_par, n_elem, paragraph, full_text, insertions, data, unique_id,
                   original_partial, corrected_sentence, i, arg, ret>>
    /\ UNCHANGED <<driverVars, datasetVars>>

\* for ins_element in paragraph.findall('.//w:ins', ns): ...
FindInsertions ==
    /\ pc = "find_insertions"
    /\ insertions' = ScanMarks(SelectTag(paragraph, {"w:ins"}), unique_id)
    /\ pc' = "process_deletions"
    /\ i' = 1
    /\ UNCHANGED <<exc, n_par, n_elem, paragraph, full_text, deletions, data, unique_id,
                   original_partial, corrected_sentence, arg, ret>>
    /\ UNCHANGED <<driverVars, datasetVars>>

\* one iteration of: for del_id, del_text in deletions
ProcessDeletion ==
    /\ pc = "process_deletions"
    /\ i <= Len(deletions)
    /\ LET del_id == deletions[i][1]
           del_text == deletions[i][2]
           matching_insert == MatchingInsert(insertions, del_id)
           correction_single == CorrectionSingle(matching_insert)
           assigned == strip(del_text) # <<>>
       IN /\ original_partial' =
                IF assigned THEN get_surrounding_text(full_text, del_text, DefaultWindow)
                ELSE original_partial
          /\ corrected_sentence' =
                IF assigned
                THEN replace(full_text, del_text,
                             IF Truthy(correction_single) THEN correction_single ELSE <<>>)
                ELSE corrected_sentence
          /\ IF original_partial' = Unbound \/ corrected_sentence' = Unbound
             THEN \* reading a local that was never assigned raises UnboundLocalError
                  /\ pc' = "raised"
                  /\ exc' = "UnboundLocalError"
                  /\ UNCHANGED <<data, unique_id, i>>
             ELSE /\ data' = Emit(data,
                        DeletionRecord(unique_id, del_text, original_partial', full_text,
                                       correction_single, corrected_sentence',
                                       ChangeType(del_text, matching_insert)))
                  /\ unique_id' = NextUniqueId(unique_id)
                  /\ i' = i + 1
                  /\ UNCHANGED <<pc, exc>>
    /\ UNCHANGED <<n_par, n_elem, paragraph, full_text, deletions, insertions, arg, ret>>
    /\ UNCHANGED <<driverVars, datasetVars>>

\* the loop over deletions is exhausted: on to the loop over insertions
EndDeletions ==
    /\ pc = "process_deletions"
    /\ i > Len(deletions)
    /\ pc' = "process_insertions"
    /\ i' = 1
    /\ UNCHANGED <<exc, n_par, n_elem, paragraph, full_text, deletions, insertions, data,
                   unique_id, original_partial, corrected_sentence, arg, ret>>
    /\ UNCHANGED <<driverVars, datasetVars>>

\* one iteration of: for ins_id, ins_text in insertions
ProcessInsertion ==
    /\ pc = "process_insertions"
    /\ i <= Len(insertions)
    /\ LET ins_id == insertions[i][1]
           ins_text == insertions[i][2]
       IN IF ~AnyDeletionWithId(deletions, ins_id)
          THEN /\ original_partial' = get_surrounding_text(full_text, ins_text, DefaultWindow)
               /\ corrected_sentence' = replace(full_text, ins_text, ins_text)
               /\ data' = Emit(data,
                        InsertionRecord(unique_id, ins_text, original_partial', full_text,
                                        corrected_sentence'))
               /\ unique_id' = NextUniqueId(unique_id)
          ELSE UNCHANGED <<original_partial, corrected_sentence, data, unique_id>>
    /\ i' = i + 1
    /\ UNCHANGED <<pc, exc, n_par, n_elem, paragraph, full_text, deletions, insertions,
                   arg, ret>>
    /\ UNCHANGED <<driverVars, datasetVars>>

\* the loop over insertions is exhausted: back to the loop over paragraphs
EndInsertions ==
    /\ pc = "process_insertions"
    /\ i > Len(insertions)
    /\ pc' = "paragraphs"
    /\ UNCHANGED <<exc, n_par, n_elem, paragraph, full_text, deletions, insertions, data,
                   unique_id, original_partial, corrected_sentence, i, arg, ret>>
    /\ UNCHANGED <<driverVars, datasetVars>>

\* df = pd.DataFrame(data); return df -- the document has no further paragraph
Return ==
    /\ pc = "paragraphs"
    /\ pc' = "returned"
    /\ UNCHANGED <<exc, n_par, n_elem, paragraph, full_text, deletions, insertions, data,
                   unique_id, original_partial, corrected_sentence, i, arg, ret>>
    /\ UNCHANGED <<driverVars, datasetVars>>

Next ==
    \/ NextParagraph
    \/ FindDeletions
    \/ MergeDeletions
    \/ FindInsertions
    \/ ProcessDeletion
    \/ EndDeletions
    \/ ProcessInsertion
    \/ EndInsertions
    \/ Return

Spec == Init /\ [][Next]_vars

(***************************************************************************)
(* merge_deletions called on its own, on any list of (identifier, text)    *)
(* marks.                                                                  *)
(***************************************************************************)
MergeIds == {"1", "2"}
MergeTexts == { <<"A">>, <<"B">>, <<"C">> }
MergeInputs == UNION { [1..n -> MergeIds \X MergeTexts] : n \in 0..MaxDeletions }

InitMerge ==
    /\ pc = "call_merge_deletions"
    /\ exc = "none"
    /\ n_par = 0
    /\ n_elem = 0
    /\ paragraph = <<>>
    /\ full_text = Unbound
    /\ deletions = <<>>
    /\ insertions = <<>>
    /\ data = <<>>
    /\ unique_id = 1
    /\ original_partial = Unbound
    /\ corrected_sentence = Unbound
    /\ i = 0
    /\ arg \in MergeInputs
    /\ ret = <<>>
    /\ DriverIdle
    /\ DatasetIdle

CallMergeDeletions ==
    /\ pc = "call_merge_deletions"
    /\ ret' = merge_deletions(arg)
    /\ pc' = "merge_deletions_returned"
    /\ UNCHANGED <<exc, n_par, n_elem, paragraph, full_text, deletions, insertions, data,
                   unique_id, original_partial, corrected_sentence, i, arg>>
    /\ UNCHANGED <<driverVars, datasetVars>>

NextMerge == CallMergeDeletions

SpecMerge == InitMerge /\ [][NextMerge]_vars

(***************************************************************************)
(* Properties.                                                             *)
(***************************************************************************)
IsPrefixOf(p, s) == Len(p) <= Len(s) /\ \A k \in 1..Len(p) : p[k] = s[k]

IsBlank(s) == \A k \in 1..Len(s) : s[k] = SP

Replacement == {"both", "partial-word modification"}

\* the record emitted for the k-th merged deletion of the current paragraph,
\* while the loop over deletions has completed i - 1 iterations
DeletionRecordOf(k) == data[Len(data) - (i - 1) + k]

\* the positions of the insertions whose identifier is id
InsertionsWithId(id) == {m \in 1..Len(insertions) : insertions[m][1] = id}

FirstOf(S) == CHOOSE m \in S : \A n \in S : m <= n

\* C1: every merged deletion processed so far has a record that is a
\* replacement carrying the text of the first insertion with the deletion's
\* identifier when there is one, and a 'deletion' with a null correction
\* otherwise; the insertion is not consumed, so every deletion with that
\* identifier gets the same first insertion.
C1_FirstMatchingInsertion ==
    pc = "process_deletions" =>
        \A k \in 1..(i - 1) :
            LET rec == DeletionRecordOf(k)
                K == InsertionsWithId(deletions[k][1])
            IN /\ rec.original_single = deletions[k][2]
               /\ IF K # {}
                  THEN /\ rec.change_type \in Replacement
                       /\ rec.correction_single = insertions[FirstOf(K)][2]
                  ELSE /\ rec.change_type = "deletion"
                       /\ rec.correction_single = None

\* a replacement was emitted for a deletion that two insertions with
\* different texts match
C1_Witness ==
    /\ pc = "process_deletions"
    /\ i = 2
    /\ Len(insertions) >= 2
    /\ insertions[1][1] = deletions[1][1]
    /\ insertions[2][1] = deletions[1][1]
    /\ insertions[1][2] # insertions[2][2]
    /\ DeletionRecordOf(1).change_type \in Replacement
    /\ DeletionRecordOf(1).correction_single = insertions[1][2]

\* the maximal runs of consecutive marks with equal identifier
RunStarts(l) == {k \in 1..Len(l) : k = 1 \/ l[k][1] # l[k - 1][1]}

RunEnd(l, k) ==
    CHOOSE m \in k..Len(l) :
        /\ \A j \in k..m : l[j][1] = l[k][1]
        /\ m = Len(l) \/ l[m + 1][1] # l[k][1]

\* the texts of l[from..to] joined by one space
JoinedTexts(l, from, to) ==
    LET J[m \in from..to] == IF m = from THEN l[m][2] ELSE J[m - 1] \o <<SP>> \o l[m][2]
    IN J[to]

\* the n-th smallest element of a set of numbers
NthOf(S, n) == CHOOSE k \in S : Cardinality({j \in S : j < k}) = n - 1

ExampleMarks == << <<"1", <<"A">>>>, <<"1", <<"B">>>>, <<"2", <<"C">>>> >>
ExampleMerged == << <<"1", <<"A", SP, "B">>>>, <<"2", <<"C">>>> >>

\* C2: merge_deletions returns one entry per maximal run of consecutive
\* marks with equal identifier, in the order of the runs, each carrying the
\* run's identifier and its texts joined by exactly one space; the empty
\* list gives the empty list.
C2_MergeIsRunScan ==
    pc = "merge_deletions_returned" =>
        /\ Len(ret) = Cardinality(RunStarts(arg))
        /\ \A n \in 1..Len(ret) :
              LET k == NthOf(RunStarts(arg), n)
              IN ret[n] = <<arg[k][1], JoinedTexts(arg, k, RunEnd(arg, k))>>
        /\ arg = <<>> => ret = <<>>
        /\ arg = ExampleMarks => ret = ExampleMerged

C2_Witness ==
    /\ pc = "merge_deletions_returned"
    /\ arg = ExampleMarks
    /\ ret = ExampleMerged

\* C3 as stated: the output of merge_deletions has at most one entry per
\* identifier.
C3_OneEntryPerIdentifier ==
    pc = "merge_deletions_returned" =>
        \A m, n \in 1..Len(ret) : m # n => ret[m][1] # ret[n][1]

\* C3 amended: no two adjacent entries of the output of merge_deletions
\* have the same identifier, and an identifier has one entry for each of
\* its runs of consecutive marks, so marks of one identifier separated by a
\* mark of another stay separate entries.
C3_AdjacentEntriesDiffer ==
    pc = "merge_deletions_returned" =>
        /\ \A n \in 1..(Len(ret) - 1) : ret[n][1] # ret[n + 1][1]
        /\ \A id \in MergeIds :
              Cardinality({n \in 1..Len(ret) : ret[n][1] = id})
                  = Cardinality({k \in RunStarts(arg) : arg[k][1] = id})

\* marks of one identifier separated by a mark of another were merged
C3_Witness ==
    /\ pc = "merge_deletions_returned"
    /\ Len(arg) = 3
    /\ arg[1][1] = arg[3][1]
    /\ arg[1][1] # arg[2][1]
    /\ Len(ret) = 3
    /\ ret[1][1] = ret[3][1]

\* C4: the loop over insertions takes the insertions of the paragraph one by
\* one and leaves none out; an iteration appends exactly one record, of type
\* 'insertion' with a null original snippet and the insertion's text as
\* correction snippet, when no merged deletion of the paragraph has the
\* insertion's identifier, and appends nothing when one has.
C4_UnmatchedInsertionRecord ==
    [][/\ (pc = "process_insertions" /\ i <= Len(insertions)) =>
          LET ins == insertions[i]
              matched == \E k \in 1..Len(deletions) : deletions[k][1] = ins[1]
          IN /\ pc' = "process_insertions"
             /\ i' = i + 1
             /\ insertions' = insertions
             /\ deletions' = deletions
             /\ IF matched
                THEN data' = data
                ELSE /\ Len(data') = Len(data) + 1
                     /\ SubSeq(data', 1, Len(data)) = data
                     /\ data'[Len(data')].change_type = "insertion"
                     /\ data'[Len(data')].original_single = None
                     /\ data'[Len(data')].correction_single = ins[2]
       /\ (pc = "process_deletions" /\ pc' = "process_insertions") => i' = 1
       /\ (pc = "process_insertions" /\ pc' # "process_insertions") =>
             i > Len(insertions) /\ data' = data]_vars

\* an insertion of an earlier paragraph got its record, and an insertion of
\* this paragraph that a deletion matches was passed over
C4_Witness ==
    /\ pc = "process_insertions"
    /\ i = 2
    /\ deletions # <<>>
    /\ insertions[1][1] = deletions[1][1]
    /\ \E k \in 1..Len(data) :
          /\ data[k].change_type = "insertion"
          /\ data[k].original_single = None
          /\ data[k].correction_single = <<"a">>

Testing == <<"t", "e", "s", "t", "i", "n", "g">>
Test == <<"t", "e", "s", "t">>
Color == <<"c", "o", "l", "o", "r">>
Colour == <<"c", "o", "l", "o", "u", "r">>

DelElementsOf(par) == SelectTag(par, {"w:del"})
InsElementsOf(par) == SelectTag(par, {"w:ins"})

DeclaresId(el) == QualifiedId \in DOMAIN el.attrib

\* C6 as stated: in a paragraph none of whose revision elements declares an
\* id, no deletion mark and insertion mark get the same fallback identifier,
\* and every record emitted for a deletion is a pure 'deletion' with a null
\* correction.
C6_FallbackIdsNotCorrelated ==
    (pc = "process_deletions" /\ \A n \in 1..Len(paragraph) : ~DeclaresId(paragraph[n])) =>
        /\ \A k \in 1..Len(deletions) : \A m \in 1..Len(insertions) :
              deletions[k][1] # insertions[m][1]
        /\ \A k \in 1..(i - 1) :
              /\ DeletionRecordOf(k).change_type = "deletion"
              /\ DeletionRecordOf(k).correction_single = None

\* the identifier the markup gives an element: its declared id, else the
\* fallback
DeclaredOrFallback(el, uid) ==
    IF DeclaresId(el) THEN el.attrib[QualifiedId] ELSE str(uid)

\* the marks of the elements with non-empty text, under their declared ids
RECURSIVE DeclaredMarks(_, _)
DeclaredMarks(elements, uid) ==
    IF elements = <<>> THEN <<>>
    ELSE (IF extract_text_from_runs(Head(elements).runs) # <<>>
          THEN << <<DeclaredOrFallback(Head(elements), uid),
                    extract_text_from_runs(Head(elements).runs)>> >>
          ELSE <<>>)
         \o DeclaredMarks(Tail(elements), uid)

\* C7 as stated: the identifier recorded for a mark is the id its element
\* declares, and the fallback only when the element declares none.
C7_DeclaredIdRecorded ==
    /\ pc = "merge" => deletions = DeclaredMarks(DelElementsOf(paragraph), unique_id)
    /\ (pc = "process_deletions" /\ i = 1) =>
          insertions = DeclaredMarks(InsElementsOf(paragraph), unique_id)

\* C8 as stated: no mark kept by the scanner and no snippet of a record is
\* empty or whitespace-only.
C8_BlankMarksDiscarded ==
    /\ \A k \in 1..Len(deletions) : ~IsBlank(deletions[k][2])
    /\ \A k \in 1..Len(insertions) : ~IsBlank(insertions[k][2])
    /\ \A k \in 1..Len(data) :
          /\ data[k].original_single # None => ~IsBlank(data[k].original_single)
          /\ data[k].correction_single # None => ~IsBlank(data[k].correction_single)

\* C9 as stated: extract_tracked_changes never raises.
C9_NeverRaises == pc # "raised" /\ exc = "none"

\* C10: the sequence ids of the records emitted so far are 1, 2, ..., N in
\* emission order, and the counter is the next id.
C10_SequenceIdsContiguous ==
    /\ \A k \in 1..Len(data) : data[k].ID = k
    /\ pc # "raised" => unique_id = Len(data) + 1

\* the second paragraph has no deletion and emitted the records of two
\* insertions, with ids 1 and 2, after a first paragraph that emitted none
C10_Witness ==
    /\ n_par = 2
    /\ pc = "process_insertions"
    /\ deletions = <<>>
    /\ i = 3
    /\ Len(data) = 2
    /\ data[1].original_sentence = full_text
    /\ data[1].ID = 1
    /\ data[2].ID = 2

\* the insertions before position n that no merged deletion matches
UnmatchedBefore(n) ==
    {k \in 1..(n - 1) : \A d \in 1..Len(deletions) : deletions[d][1] # insertions[k][1]}

\* how many deletions / insertions of the current paragraph have been processed
DeletionsDone == IF pc = "process_deletions" THEN i - 1 ELSE Len(deletions)
InsertionsDone == IF pc = "process_insertions" THEN Cardinality(UnmatchedBefore(i)) ELSE 0

\* the k-th record emitted for the current paragraph
ParagraphRecord(k) == data[Len(data) - (DeletionsDone + InsertionsDone) + k]

\* the records of the current paragraph end the list: one per merged
\* deletion in merged order, then one per unmatched insertion in insertion
\* order
ParagraphRecordsInOrder ==
    pc \in {"process_deletions", "process_insertions"} =>
        /\ Len(data) >= DeletionsDone + InsertionsDone
        /\ \A k \in 1..DeletionsDone :
              /\ ParagraphRecord(k).original_single = deletions[k][2]
              /\ ParagraphRecord(k).original_sentence = full_text
        /\ \A m \in 1..InsertionsDone :
              LET r == ParagraphRecord(DeletionsDone + m)
              IN /\ r.original_single = None
                 /\ r.change_type = "insertion"
                 /\ r.correction_single = insertions[NthOf(UnmatchedBefore(i), m)][2]
                 /\ r.original_sentence = full_text

\* records are only ever added at the end, one at a time, by an iteration
\* over the current paragraph's deletions or insertions, and the loop over
\* insertions starts only when the loop over deletions is done
RecordsAppendedInOrder ==
    /\ data' # data =>
          /\ Len(data') = Len(data) + 1
          /\ SubSeq(data', 1, Len(data)) = data
          /\ pc \in {"process_deletions", "process_insertions"}
          /\ pc' = pc
          /\ i' = i + 1
    /\ (pc = "process_deletions" /\ pc' = "process_insertions") => i > Len(deletions)
    /\ pc = "process_insertions" => pc' # "process_deletions"
    /\ n_par' >= n_par

\* C11: the record sequence is the concatenation over paragraphs, in
\* document order, of one record per merged deletion in merged order
\* followed by one record per unmatched insertion in insertion order; a
\* document with zero paragraphs yields zero records.
C11_RecordOrder ==
    /\ [](ParagraphRecordsInOrder /\ (n_par = 0 => data = <<>>))
    /\ [][RecordsAppendedInOrder]_vars

\* the first paragraph emitted a deletion record and the second, which has
\* no deletion, the record of an insertion after it
C11_Witness ==
    /\ n_par = 2
    /\ pc = "process_insertions"
    /\ deletions = <<>>
    /\ i = 2
    /\ Len(data) = 2
    /\ data[1].original_single # None
    /\ data[2].original_single = None
    /\ data[2].correction_single = insertions[1][2]

\* the positions at which old occurs in s
Occurrences(s, old) ==
    {q \in 1..(Len(s) - Len(old) + 1) : SubSeq(s, q, q + Len(old) - 1) = old}

\* s with only its first occurrence of old replaced by new
ReplaceFirst(s, old, new) ==
    IF Occurrences(s, old) = {} THEN s
    ELSE LET q == FirstOf(Occurrences(s, old))
         IN SubSeq(s, 1, q - 1) \o new \o SubSeq(s, q + Len(old), Len(s))

TextOrEmpty(x) == IF x = None THEN <<>> ELSE x

\* C12 as stated: the resulting sentence of a record emitted for a merged
\* deletion (one with visible text) is the paragraph's full text with only
\* the first occurrence of the deleted snippet replaced by the correction,
\* or removed when there is none.
C12_FirstOccurrenceOnly ==
    pc = "process_deletions" =>
        \A k \in 1..(i - 1) :
            ~IsBlank(deletions[k][2]) =>
                DeletionRecordOf(k).corrected_sentence =
                    ReplaceFirst(full_text, deletions[k][2],
                                 TextOrEmpty(DeletionRecordOf(k).correction_single))

(***************************************************************************)
(* get_surrounding_text called on its own.                                 *)
(***************************************************************************)
SurroundWords == { <<"a">>, <<"b">>, <<"a", "b">> }

WordLists(n) == UNION { [1..m -> SurroundWords] : m \in 0..n }

\* the words separated by one space
RECURSIVE Spaced(_)
Spaced(ws) ==
    IF ws = <<>> THEN <<>>
    ELSE IF Len(ws) = 1 THEN ws[1]
    ELSE ws[1] \o <<SP>> \o Spaced(Tail(ws))

\* the same with a space in front and two behind
Padded(s) == <<SP>> \o s \o <<SP, SP>>

ExampleText ==
    <<"T", "h", "e", SP, "q", "u", "i", "c", "k", SP, "b", "r", "o", "w", "n", SP,
      "f", "o", "x", SP, "j", "u", "m", "p", "s">>
ExampleTarget == <<"b", "r", "o", "w", "n">>
ExampleWindow ==
    <<"q", "u", "i", "c", "k", "b", "r", "o", "w", "n", "f", "o", "x">>

SurroundTexts ==
    {Spaced(ws) : ws \in WordLists(MaxTextWords)}
    \cup {Padded(Spaced(ws)) : ws \in WordLists(MaxTextWords)}

SurroundTargets == {Spaced(ws) : ws \in WordLists(MaxTargetWords)} \cup {<<SP>>}

SurroundInputs ==
    (SurroundTexts \X SurroundTargets \X (0..MaxWindow))
    \cup {<<ExampleText, ExampleTarget, 1>>}

InitSurround ==
    /\ pc = "call_get_surrounding_text"
    /\ exc = "none"
    /\ n_par = 0
    /\ n_elem = 0
    /\ paragraph = <<>>
    /\ full_text = Unbound
    /\ deletions = <<>>
    /\ insertions = <<>>
    /\ data = <<>>
    /\ unique_id = 1
    /\ original_partial = Unbound
    /\ corrected_sentence = Unbound
    /\ i = 0
    /\ arg \in SurroundInputs
    /\ ret = <<>>
    /\ DriverIdle
    /\ DatasetIdle

CallGetSurroundingText ==
    /\ pc = "call_get_surrounding_text"
    /\ ret' = get_surrounding_text(arg[1], arg[2], arg[3])
    /\ pc' = "get_surrounding_text_returned"
    /\ UNCHANGED <<exc, n_par, n_elem, paragraph, full_text, deletions, insertions, data,
                   unique_id, original_partial, corrected_sentence, i, arg>>
    /\ UNCHANGED <<driverVars, datasetVars>>

NextSurround == CallGetSurroundingText

SpecSurround == InitSurround /\ [][NextSurround]_vars

\* the whitespace-separated tokens of s: where they start, where the one
\* starting at q ends, how many there are, the n-th of them
TokenStarts(s) == {q \in 1..Len(s) : s[q] # SP /\ (q = 1 \/ s[q - 1] = SP)}

TokenEnd(s, q) ==
    CHOOSE e \in q..Len(s) :
        /\ \A c \in q..e : s[c] # SP
        /\ e = Len(s) \/ s[e + 1] = SP

TokenCount(s) == Cardinality(TokenStarts(s))

TokenAt(s, n) ==
    LET q == NthOf(TokenStarts(s), n) IN SubSeq(s, q, TokenEnd(s, q))

\* the tokens from..to of s, one after the other
TokensConcatenated(s, from, to) ==
    LET C[m \in (from - 1)..to] ==
            IF m = from - 1 THEN <<>> ELSE C[m - 1] \o TokenAt(s, m)
    IN C[to]

\* the positions (from 1) of the tokens of text equal to the first word of target
FirstWordPositions(text, target) ==
    IF TokenCount(target) = 0 THEN {}
    ELSE {q \in 1..TokenCount(text) : TokenAt(text, q) = TokenAt(target, 1)}

\* C13: when the first word of target occurs in the tokenized text, first at
\* position i (from 0), get_surrounding_text returns exactly the tokens at
\* positions max(0, i - window) .. min(n, i + window + k) - 1, in order, n and
\* k being the token counts of text and target.
C13_WindowTokens ==
    (pc = "get_surrounding_text_returned" /\ FirstWordPositions(arg[1], arg[2]) # {}) =>
        LET n == TokenCount(arg[1])
            k == TokenCount(arg[2])
            at == FirstOf(FirstWordPositions(arg[1], arg[2])) - 1
            lo == Max(0, at - arg[3])
            hi == Min(n, at + arg[3] + k) - 1
        IN /\ ret = TokensConcatenated(arg[1], lo + 1, hi + 1)
           /\ 0 <= lo /\ hi <= n - 1
           /\ at - lo <= arg[3]
           /\ arg = <<ExampleText, ExampleTarget, 1>> => ret = ExampleWindow

C13_Witness ==
    /\ pc = "get_surrounding_text_returned"
    /\ arg = <<ExampleText, ExampleTarget, 1>>
    /\ ret = ExampleWindow

\* C14: get_surrounding_text returns the full text unchanged when the target
\* is empty or whitespace-only or its first word is no token of the text.
C14_FallbackToFullText ==
    (pc = "get_surrounding_text_returned" /\ FirstWordPositions(arg[1], arg[2]) = {}) =>
        ret = arg[1]

\* a target with a word was looked up in a text with words that lacks it
C14_Witness ==
    /\ pc = "get_surrounding_text_returned"
    /\ TokenCount(arg[1]) > 0
    /\ TokenCount(arg[2]) > 0
    /\ FirstWordPositions(arg[1], arg[2]) = {}
    /\ ret = arg[1]

(***************************************************************************)
(* The batch driver (__main__): one publication folder after the other,    *)
(* in each the files until the first one that is exported.                 *)
(***************************************************************************)
max_files == 10

extractVars ==
    <<n_par, n_elem, paragraph, full_text, deletions, insertions, data, unique_id,
      original_partial, corrected_sentence, i, arg, ret>>

IsCandidate(file) == file.ext = ".docx" /\ file.prefix = "CORR_"

\* a listed file: how its name starts and ends, and whether extracting or
\* exporting it raises (only a candidate is ever extracted)
Files ==
    {file \in [prefix : {"CORR_", "PROOF_"}, ext : {".docx", ".pdf"}, raises : BOOLEAN] :
        file.raises => IsCandidate(file)}

Listings == UNION { [1..m -> Files] : m \in 0..MaxFiles }

\* variant: the handler gives up on the folder
OnExceptionBreak(k) == [pc |-> "check", f |-> k]

\* except Exception: print and continue with the next file of the folder
OnException(k) == [pc |-> "files", f |-> k + 1]

\* variant: the count is never found to have reached max_files
ReachedMaxNever(n) == FALSE

ReachedMax(n) == n >= max_files

InitDriver ==
    /\ pc = "folders"
    /\ exc = "none"
    /\ n_par = 0
    /\ n_elem = 0
    /\ paragraph = <<>>
    /\ full_text = Unbound
    /\ deletions = <<>>
    /\ insertions = <<>>
    /\ data = <<>>
    /\ unique_id = 1
    /\ original_partial = Unbound
    /\ corrected_sentence = Unbound
    /\ i = 0
    /\ arg = <<>>
    /\ ret = <<>>
    /\ DriverIdle
    /\ DatasetIdle

\* the next entry of proof_dir is a folder, and its files are listed
NextFolder ==
    /\ pc = "folders"
    /\ n_folders < MaxFolders
    /\ \E listing \in Listings : folder_files' = listing
    /\ n_folders' = n_folders + 1
    /\ f' = 1
    /\ pc' = "files"
    /\ UNCHANGED <<exc, files_processed, extractVars, datasetVars>>

\* the next entry of proof_dir is no folder: listing it raises outside the try
ListFolderRaises ==
    /\ pc = "folders"
    /\ n_folders < MaxFolders
    /\ n_folders' = n_folders + 1
    /\ folder_files' = <<>>
    /\ f' = 0
    /\ exc' = "NotADirectoryError"
    /\ pc' = "driver_raised"
    /\ UNCHANGED <<files_processed, extractVars, datasetVars>>

\* the file is no CORR_*.docx: nothing is done with it
SkipFile ==
    /\ pc = "files"
    /\ f <= Len(folder_files)
    /\ ~IsCandidate(folder_files[f])
    /\ f' = f + 1
    /\ UNCHANGED <<pc, exc, files_processed, n_folders, folder_files, extractVars, datasetVars>>

\* the try block on a candidate: count it and leave the folder, or handle
\* the exception
ProcessFile ==
    /\ pc = "files"
    /\ f <= Len(folder_files)
    /\ IsCandidate(folder_files[f])
    /\ IF folder_files[f].raises
       THEN /\ pc' = OnException(f).pc
            /\ f' = OnException(f).f
            /\ UNCHANGED files_processed
       ELSE /\ files_processed' = files_processed + 1
            /\ pc' = "check"
            /\ UNCHANGED f
    /\ UNCHANGED <<exc, n_folders, folder_files, extractVars, datasetVars>>

\* the files of the folder are exhausted
EndFiles ==
    /\ pc = "files"
    /\ f > Len(folder_files)
    /\ pc' = "check"
    /\ UNCHANGED <<exc, files_processed, n_folders, folder_files, f, extractVars, datasetVars>>

\* if files_processed >= max_files: break
CheckMax ==
    /\ pc = "check"
    /\ pc' = IF ReachedMax(files_processed) THEN "driver_done" ELSE "folders"
    /\ UNCHANGED <<exc, files_processed, n_folders, folder_files, f, extractVars, datasetVars>>

\* the entries of proof_dir are exhausted
EndFolders ==
    /\ pc = "folders"
    /\ pc' = "driver_done"
    /\ UNCHANGED <<exc, files_processed, n_folders, folder_files, f, extractVars, datasetVars>>

NextDriver ==
    \/ NextFolder
    \/ ListFolderRaises
    \/ SkipFile
    \/ ProcessFile
    \/ EndFiles
    \/ CheckMax
    \/ EndFolders

SpecDriver == InitDriver /\ [][NextDriver]_vars

\* the interpreter keeps running the script until it ends
SpecDriverFair == SpecDriver /\ WF_vars(NextDriver)

AtFailingCandidate ==
    /\ pc = "files"
    /\ f <= Len(folder_files)
    /\ IsCandidate(folder_files[f])
    /\ folder_files[f].raises

\* C15: a candidate document whose extraction or export raises does not end
\* the batch: the driver stays in the same folder at its next file, the
\* document is not counted, and after the folder the driver goes back to the
\* remaining folders as long as max_files is not reached.
C15_FailureSkipped ==
    /\ [][AtFailingCandidate =>
            /\ pc' = "files"
            /\ f' = f + 1
            /\ folder_files' = folder_files
            /\ n_folders' = n_folders
            /\ files_processed' = files_processed
            /\ exc' = "none"]_vars
    /\ [][(pc = "files" /\ ~AtFailingCandidate) => pc' \in {"files", "check"}]_vars
    /\ [][(pc = "check" /\ files_processed < max_files) => pc' = "folders"]_vars
    /\ [](pc = "driver_raised" => exc = "NotADirectoryError")

\* the first file of a folder failed and its second file was exported
C15_Witness ==
    /\ pc = "check"
    /\ f = 2
    /\ Len(folder_files) = 2
    /\ IsCandidate(folder_files[1]) /\ folder_files[1].raises
    /\ IsCandidate(folder_files[2]) /\ ~folder_files[2].raises
    /\ n_folders = 1
    /\ files_processed = 1

\* C19: the driver exports at most one document per folder (an export leaves
\* the folder, so the count never exceeds the folders visited), visits no
\* folder once files_processed has reached max_files, keeps
\* files_processed <= max_files, and terminates.
C19_BoundedAndTerminates ==
    /\ [](files_processed <= max_files /\ files_processed <= n_folders)
    /\ [][files_processed' # files_processed =>
            /\ files_processed' = files_processed + 1
            /\ pc = "files" /\ pc' = "check"
            /\ n_folders' = n_folders]_vars
    /\ [][n_folders' # n_folders => files_processed < max_files]_vars
    /\ <>(pc \in {"driver_done", "driver_raised"})

\* the batch ended on the count while folders could still have followed
C19_Witness ==
    /\ pc = "driver_done"
    /\ files_processed = max_files
    /\ n_folders = max_files
    /\ n_folders < MaxFolders

(***************************************************************************)
(* create_test_dataset: the rules one after the other, for each up to      *)
(* remaining_examples generation attempts, then the save.  limit is <<>>   *)
(* for None and <<n>> for the integer n.                                   *)
(***************************************************************************)
Limits == {<<>>} \cup {<<n>> : n \in 0..MaxLimit}

\* the truth value of limit in a condition: None and 0 are false
LimitTruthy(lim) == lim # <<>> /\ lim[1] # 0

\* limit and len(all_examples) >= limit
LimitReached(lim, examples) == LimitTruthy(lim) /\ Len(examples) >= lim[1]

\* min(examples_per_rule, limit - len(all_examples) if limit else examples_per_rule)
RemainingExamples(per_rule, lim, examples) ==
    Min(per_rule, IF LimitTruthy(lim) THEN lim[1] - Len(examples) ELSE per_rule)

InitDataset ==
    /\ pc = "rules"
    /\ exc = "none"
    /\ n_par = 0
    /\ n_elem = 0
    /\ paragraph = <<>>
    /\ full_text = Unbound
    /\ deletions = <<>>
    /\ insertions = <<>>
    /\ data = <<>>
    /\ unique_id = 1
    /\ original_partial = Unbound
    /\ corrected_sentence = Unbound
    /\ i = 0
    /\ arg = <<>>
    /\ ret = <<>>
    /\ DriverIdle
    /\ limit \in Limits
    /\ examples_per_rule \in 0..MaxPerRule
    /\ rules_left \in 0..MaxRules
    /\ all_examples = <<>>
    /\ remaining_examples = 0
    /\ saved = Unbound

\* the head of the loop over the rules: leave it on the limit, or compute
\* remaining_examples for the next rule
NextRule ==
    /\ pc = "rules"
    /\ rules_left > 0
    /\ IF LimitReached(limit, all_examples)
       THEN /\ pc' = "save"
            /\ UNCHANGED <<rules_left, remaining_examples, i>>
       ELSE /\ rules_left' = rules_left - 1
            /\ remaining_examples' = RemainingExamples(examples_per_rule, limit, all_examples)
            /\ i' = 0
            /\ pc' = "examples"
    /\ UNCHANGED <<exc, n_par, n_elem, paragraph, full_text, deletions, insertions, data,
                   unique_id, original_partial, corrected_sentence, arg, ret>>
    /\ UNCHANGED <<limit, examples_per_rule, all_examples, saved, driverVars>>

\* one pass of the loop over range(remaining_examples): generate_example
\* gives a text and an explanation or two empty strings
GenerateExample ==
    /\ pc = "examples"
    /\ i < remaining_examples
    /\ \E generated \in BOOLEAN :
          all_examples' = IF generated
                          THEN Append(all_examples, [rule_id |-> rules_left])
                          ELSE all_examples
    /\ IF LimitReached(limit, all_examples')
       THEN pc' = "rules" /\ UNCHANGED i
       ELSE pc' = "examples" /\ i' = i + 1
    /\ UNCHANGED <<exc, n_par, n_elem, paragraph, full_text, deletions, insertions, data,
                   unique_id, original_partial, corrected_sentence, arg, ret>>
    /\ UNCHANGED <<limit, examples_per_rule, rules_left, remaining_examples, saved, driverVars>>

\* range(remaining_examples) is exhausted
EndExamples ==
    /\ pc = "examples"
    /\ i >= remaining_examples
    /\ pc' = "rules"
    /\ UNCHANGED <<exc, extractVars, driverVars, datasetVars>>

\* the rules are exhausted
EndRules ==
    /\ pc = "rules"
    /\ rules_left = 0
    /\ pc' = "save"
    /\ UNCHANGED <<exc, extractVars, driverVars, datasetVars>>

\* save_test_dataset(all_examples, output_file)
SaveTestDataset ==
    /\ pc = "save"
    /\ saved' = all_examples
    /\ pc' = "dataset_done"
    /\ UNCHANGED <<exc, extractVars, driverVars>>
    /\ UNCHANGED <<limit, examples_per_rule, rules_left, all_examples, remaining_examples>>

NextDataset ==
    \/ NextRule
    \/ GenerateExample
    \/ EndExamples
    \/ EndRules
    \/ SaveTestDataset

SpecDataset == InitDataset /\ [][NextDataset]_vars

\* C16: for every limit other than None, the examples accumulated and those
\* handed to save_test_dataset never number more than limit.
C16_LimitIsMaximum ==
    limit # <<>> =>
        /\ Len(all_examples) <= limit[1]
        /\ pc = "dataset_done" => Len(saved) <= limit[1]

\* C17: every deletion-derived record of the paragraph being processed has
\* the word window and the resulting sentence computed from the paragraph's
\* own full text and the record's own deleted snippet (and correction); no
\* value of an earlier record is carried over.
C17_OwnContextFields ==
    pc = "process_deletions" =>
        \A k \in 1..(i - 1) :
            /\ DeletionRecordOf(k).original_sentence = full_text
            /\ DeletionRecordOf(k).original_partial =
                   get_surrounding_text(full_text, deletions[k][2], DefaultWindow)
            /\ DeletionRecordOf(k).corrected_sentence =
                   replace(full_text, deletions[k][2],
                           TextOrEmpty(DeletionRecordOf(k).correction_single))

\* the insertions of the current paragraph whose identifier is that of a
\* merged deletion and that are not the first insertion with it
DroppedInsertions ==
    {q \in 1..Len(insertions) :
        /\ \E d \in 1..Len(deletions) : deletions[d][1] = insertions[q][1]
        /\ q # FirstOf(InsertionsWithId(insertions[q][1]))}

\* C18: an insertion whose identifier is that of a merged deletion of its
\* paragraph and that is not the first insertion with that identifier is
\* dropped: the loop over the insertions passes it without a record, and the
\* correction of a deletion record is its text only where the first insertion
\* with the deletion's identifier has that very text.
C18_LaterMatchingInsertionDropped ==
    /\ [][(pc = "process_insertions" /\ i \in DroppedInsertions) =>
            /\ data' = data
            /\ unique_id' = unique_id
            /\ pc' = "process_insertions"
            /\ i' = i + 1]_vars
    /\ [](pc = "process_insertions" =>
            \A q \in DroppedInsertions :
                \A k \in 1..Len(deletions) :
                    ParagraphRecord(k).correction_single = insertions[q][2] =>
                        insertions[FirstOf(InsertionsWithId(deletions[k][1]))][2]
                            = insertions[q][2])

\* a deletion with two insertions of different texts: one record, carrying
\* the first
C18_Witness ==
    /\ pc = "process_insertions"
    /\ i > Len(insertions)
    /\ Len(deletions) = 1
    /\ Len(insertions) = 2
    /\ DroppedInsertions = {2}
    /\ insertions[2][2] # insertions[1][2]
    /\ Len(data) = 1
    /\ data[1].original_single = deletions[1][2]
    /\ data[1].correction_single = insertions[1][2]

====
